---- MODULE Spec2Model ----
(***************************************************************************)
(* Model of gcerrato/go-lru, src/src/lru/lru_cache.go.                     *)
(*                                                                         *)
(* The file holds two versions of the cache:                               *)
(*   - the mutex-based cache (lines 144-270): Has, Get and Set run under   *)
(*     SafeMap.mu; a background goroutine (startMessageListener) calls     *)
(*     sweepKeys every interval.  sweepKeys itself takes no lock.          *)
(*   - the channel-based cache (lines 1-142): Set sends an "add" message   *)
(*     on an unbuffered channel and then receives from the same channel;   *)
(*     a listener goroutine applies adds and sweeps, a ticker goroutine    *)
(*     sends "sweep" messages.                                             *)
(*                                                                         *)
(* Time is counted in clock ticks, TicksPerMs ticks to the millisecond, so *)
(* that the truncation of Duration.Milliseconds() is visible.              *)
(***************************************************************************)
EXTENDS Integers, Sequences, FiniteSets, TLC

\* ---------------------------------------------------------------- bounds
MaxItemLimit == 2
MaxTTL == 2
MaxClock == 3
MaxVal == 2

\* ------------------------------------------------------------- constants
\* time.Millisecond, in clock ticks
TicksPerMs == 2
\* the zero time.Time of `var oldestTime time.Time`
ZeroTime == -1

Keys == {"", "a", "b", "c"}
\* the key populations a client may draw its keys from
KeySets == {{"", "a"}, {"a", "b", "c"}}
Vals == 1..MaxVal
\* the zero value of T (`var zero T`)
Zero == 0

VARIABLES
    Config,     \* LRUCacheConfig: [ItemLimit, TTL]
    Storage,    \* SafeMap.SafeMap / InMemoryLRUCache.Storage: key -> StorageItem
    mu,         \* SafeMap.mu: "free", or the client that holds it: "client", "client2"
    clock,      \* time.Now(), in ticks
    gran,       \* resolution of the clock: ticks added by one advance
    keys,       \* the keys the client uses
    pc,         \* position of the client goroutine
    call,       \* the call the client is in: [op, key, value]
    frame,      \* locals of that call: [exists, Value, now], and the history
                \* field promised: the value `expect` held for the key at the lookup
    sw,         \* the sweeper goroutine: [pc, now, seen, key], and the history
                \* field quiet: no Has, Get or Set body has overlapped the pass
    lst,        \* channel-based cache, the listener goroutine: [pc, msg]
    tkr,        \* channel-based cache, the ticker goroutine
    crashed,    \* the runtime stopped the process (fatal error: concurrent map access)
    expect,     \* history: what each key touched less than TTL ago and not evicted must hold
    scen,       \* history: the eviction-order scenario [phase, touched, last, expired]
    client2,    \* a second client goroutine: [pc, call, frame]
    touched     \* history [on, order]: the keys of the store in the order of their
                \* latest touch (latest last), each with the value of its latest Set

prog == <<Config, Storage, mu, clock, gran, keys, pc, call, frame, sw, lst, tkr, crashed, client2>>
vars == <<Config, Storage, mu, clock, gran, keys, pc, call, frame, sw, lst, tkr, crashed, expect, scen, client2,
          touched>>

\* ------------------------------------------------------------ data model
NoCall == [op |-> "none", key |-> "", value |-> Zero]
NoFrame == [exists |-> FALSE, Value |-> Zero, now |-> 0, promised |-> Zero]
SwIdle == [pc |-> "sleep", now |-> 0, seen |-> {}, key |-> "", quiet |-> TRUE]
NoMsg == [action |-> "", key |-> "", value |-> Zero]
LstOff == [pc |-> "off", msg |-> NoMsg]
\* no second client
NoClient == [pc |-> "off", call |-> NoCall, frame |-> NoFrame]
ScenOff == [phase |-> "off", touched |-> << >>, first |-> "", last |-> 0, expired |-> FALSE]

\* StorageItem{Value, DeleteAt}
StorageItem(v, d) == [Value |-> v, DeleteAt |-> d]

\* delete(m, k)
Delete(m, k) == [x \in DOMAIN m \ {k} |-> m[x]]

\* m[k] = item
Put(m, k, item) == [x \in DOMAIN m \cup {k} |-> IF x = k THEN item ELSE m[x]]

\* mutant of Deadline: `* time.Millisecond` left out, the TTL counted in clock
\* units
DeadlineNoUnit(now, ms) == now + ms

\* time.Now().Add(time.Duration(ms) * time.Millisecond)
Deadline(now, ms) == now + ms * TicksPerMs

\* Duration.Milliseconds(): integer millisecond count, truncated toward zero
Milliseconds(d) == IF d >= 0 THEN d \div TicksPerMs ELSE -((-d) \div TicksPerMs)

\* mutant of bumpDeleteAt: the new deadline stored in every item of the map
bumpDeleteAtAll(m, k, now, ms) ==
    [j \in DOMAIN m |-> [m[j] EXCEPT !.DeleteAt = Deadline(now, ms)]]

\* mutant of bumpDeleteAt: the new deadline is computed and not stored
bumpDeleteAtDropped(m, k, now, ms) == m

\* item.bumpDeleteAt(ms), applied to the item the pointer refers to; when the
\* key has been deleted from the map meanwhile, the item is no longer in it
bumpDeleteAt(m, k, now, ms) ==
    IF k \in DOMAIN m
    THEN [m EXCEPT ![k].DeleteAt = Deadline(now, ms)]
    ELSE m

\* mutant of Lookup: the ok result of the map index ignored
LookupIgnoreOk(m, k) ==
    [exists |-> TRUE, Value |-> IF k \in DOMAIN m THEN m[k].Value ELSE Zero]

\* storageItem, exists := m[k], and the value the caller may return
Lookup(m, k) ==
    [exists |-> k \in DOMAIN m, Value |-> IF k \in DOMAIN m THEN m[k].Value ELSE Zero]

\* the orders in which `range` may produce the keys of m
Orders(m) ==
    LET n == Cardinality(DOMAIN m)
    IN  {o \in [1..n -> DOMAIN m] : \A i, j \in 1..n : o[i] = o[j] => i = j}

\* mutant of Older: the comparison of the deadlines dropped, only the first
\* key that `range` produces is taken
OlderFirstOnly(oldest, value) == oldest.oldestKey = ""

\* mutant of Older: the comparison reversed
OlderReversed(oldest, value) == oldest.oldestKey = "" \/ value.DeleteAt > oldest.oldestTime

\* the test of the loop of removeOldestKey: is `value` older than the oldest so far
Older(oldest, value) == oldest.oldestKey = "" \/ value.DeleteAt < oldest.oldestTime

\* the loop of removeOldestKey over the keys in the order `order`
RECURSIVE ScanOldest(_, _, _, _)
ScanOldest(m, order, i, oldest) ==
    IF i > Len(order)
    THEN oldest
    ELSE LET key == order[i]
             value == m[key]
         IN  ScanOldest(m, order, i + 1,
                 IF Older(oldest, value)
                 THEN [oldestKey |-> key, oldestTime |-> value.DeleteAt]
                 ELSE oldest)

\* mutant of removeOldestKey: the final delete left out
removeOldestKeyNoDelete(m, order) == m

\* mutant of removeOldestKey: no comparison, the first key that `range`
\* produces is removed
removeOldestKeyFirst(m, order) ==
    IF Len(order) = 0 THEN m ELSE Delete(m, order[1])

removeOldestKey(m, order) ==
    LET r == ScanOldest(m, order, 1, [oldestKey |-> "", oldestTime |-> ZeroTime])
    IN  IF r.oldestKey # "" THEN Delete(m, r.oldestKey) ELSE m

\* mutant of SweepExpired: diff > 0 in place of diff >= 0
SweepExpiredStrict(now, item) == Milliseconds(now - item.DeleteAt) > 0

\* the test of sweepKeys on one entry
SweepExpired(now, item) == Milliseconds(now - item.DeleteAt) >= 0

\* a whole pass of sweepKeys that nothing interleaves with
sweepKeys(m, now) == [k \in {x \in DOMAIN m : ~SweepExpired(now, m[x])} |-> m[k]]

\* ------------------------------------------------------ history variables
\* `expect` records, for every key touched (by a Has or Get that hits, or by a
\* Set) less than TTL ago and not removed by a capacity eviction since, the
\* value of its latest Set and the deadline of its latest touch.
ExpectTouch(k, v, now) == expect' = Put(expect, k, StorageItem(v, Deadline(now, Config.TTL)))
ExpectEvict(removed) == expect' = [k \in DOMAIN expect \ removed |-> expect[k]]
ExpectTick(now) == expect' = [k \in {x \in DOMAIN expect : expect[x].DeleteAt > now} |-> expect[k]]

\* `scen` follows the eviction-order scenario: ItemLimit Sets of distinct keys
\* ("fill"), then touches of those keys and, at last, the Set of a new key
\* ("touch", "final"), each at a later clock reading than the one before.
\* scen.touched[k] is the latest touch of k: [at, Value]; scen.first is the key
\* set first; scen.expired: an entry reached its deadline, or the sweeper took
\* one for expired, during the scenario.  "off": no scenario.
ScenActive == scen.phase \in {"fill", "touch", "final"}

ScenAllows(op, key) ==
    CASE scen.phase = "off" -> TRUE
      [] scen.phase = "fill" -> op = "Set" /\ key \notin DOMAIN scen.touched /\ clock > scen.last
      [] scen.phase = "touch" -> clock > scen.last /\ (key \in DOMAIN scen.touched \/ op = "Set")
      [] OTHER -> FALSE

ScenCall(op, key) ==
    scen' = IF scen.phase = "touch" /\ key \notin DOMAIN scen.touched
            THEN [scen EXCEPT !.phase = "final"]
            ELSE scen

ScenTouch(k, v, now) ==
    scen' = CASE scen.phase \in {"fill", "touch"} ->
                   LET t == Put(scen.touched, k, [at |-> now, Value |-> v])
                   IN  [scen EXCEPT !.touched = t,
                                    !.first = IF DOMAIN scen.touched = {} THEN k ELSE @,
                                    !.last = now,
                                    !.phase = IF Cardinality(DOMAIN t) >= Config.ItemLimit
                                              THEN "touch" ELSE "fill"]
              [] scen.phase = "final" -> [scen EXCEPT !.last = now]
              [] OTHER -> scen

ScenReturn ==
    scen' = IF scen.phase = "final" THEN [scen EXCEPT !.phase = "done"] ELSE scen

ScenExpired(cond) ==
    scen' = IF ScenActive /\ cond THEN [scen EXCEPT !.expired = TRUE] ELSE scen

\* `touched` (kept when touched.on) lists the entries of the store, [key,
\* Value], in the order of their latest touch.  LastSet(k): the value of the
\* latest Set of k; TouchPos(k): the position of k's latest touch; TouchSet: a
\* Set of k; TouchHit: a Has or Get of k that hit and bumped the entry (a bump
\* of an item that is no longer in the map touches no entry); TouchForget: the
\* entries of `removed` leave the store.
TouchedOff == [on |-> FALSE, order |-> << >>]

TouchedKeys == {touched.order[i].key : i \in 1..Len(touched.order)}

TouchPos(k) == CHOOSE i \in 1..Len(touched.order) : touched.order[i].key = k

LastSet(k) == IF k \in TouchedKeys THEN touched.order[TouchPos(k)].Value ELSE Zero

WithoutKey(k) == SelectSeq(touched.order, LAMBDA e : e.key # k)

TouchSet(k, v) ==
    touched' = IF touched.on
               THEN [touched EXCEPT !.order = Append(WithoutKey(k), [key |-> k, Value |-> v])]
               ELSE touched

TouchHit(k) ==
    touched' = IF touched.on /\ k \in DOMAIN Storage
               THEN [touched EXCEPT !.order = Append(WithoutKey(k),
                                                     [key |-> k, Value |-> LastSet(k)])]
               ELSE touched

TouchForget(removed) ==
    touched' = IF touched.on
               THEN [touched EXCEPT !.order = SelectSeq(@, LAMBDA e : e.key \notin removed)]
               ELSE touched

\* sw.quiet: a call that enters its body while the sweeper is in a pass
\* overlaps that pass
SweepOverlapped ==
    sw' = IF sw.pc \in {"scan", "delete"} THEN [sw EXCEPT !.quiet = FALSE] ELSE sw

\* ------------------------------------------------------------------ init
\* a cache just made: an empty map, the configuration as given (neither
\* NewLRUCache validates it), a client that has called nothing yet
NewCache(limit, ttl) ==
    /\ Config = [ItemLimit |-> limit, TTL |-> ttl]
    /\ Storage = << >>
    /\ mu = "free"
    /\ clock = 0
    /\ pc = "idle"
    /\ call = NoCall
    /\ frame = NoFrame
    /\ crashed = FALSE
    /\ expect = << >>

\* NewLRUCache (mutex-based): go cache.startMessageListener(50ms), the sweeper
NewLRUCache(limit, ttl) ==
    /\ NewCache(limit, ttl)
    /\ sw = SwIdle
    /\ lst = LstOff
    /\ tkr = "off"

Init ==
    /\ \E limit \in 0..MaxItemLimit, ttl \in 1..MaxTTL : NewLRUCache(limit, ttl)
    /\ keys \in KeySets
    /\ gran = 1
    /\ scen = ScenOff
    /\ client2 = NoClient
    /\ touched = TouchedOff

\* the same, with the clock counted in whole milliseconds
InitMs ==
    /\ \E limit \in 0..MaxItemLimit, ttl \in 1..MaxTTL : NewLRUCache(limit, ttl)
    /\ keys \in KeySets
    /\ gran = TicksPerMs
    /\ scen = ScenOff
    /\ client2 = NoClient
    /\ touched = TouchedOff

\* the eviction-order scenario: ItemLimit >= 1, non-empty keys
InitEvict ==
    /\ \E limit \in 1..MaxItemLimit, ttl \in 1..MaxTTL : NewLRUCache(limit, ttl)
    /\ keys \in {K \in KeySets : "" \notin K}
    /\ gran = 1
    /\ scen = [ScenOff EXCEPT !.phase = "fill", !.last = -1]
    /\ client2 = NoClient
    /\ touched = TouchedOff

\* ------------------------------------------- actions, mutex-based cache
\* time passes
Tick ==
    /\ ~crashed
    /\ clock + gran <= MaxClock
    /\ clock' = clock + gran
    /\ ExpectTick(clock')
    /\ ScenExpired(\E k \in DOMAIN Storage : Storage[k].DeleteAt <= clock')
    /\ UNCHANGED <<Config, Storage, mu, gran, keys, pc, call, frame, sw, lst, tkr, crashed, client2, touched>>

\* the client enters Has or Get: mu.Lock(), then
\* storageItem, exists := cache.Storage.SafeMap[key]
Read(op, key) ==
    /\ ~crashed
    /\ pc = "idle"
    /\ lst.pc = "off"
    /\ ScenAllows(op, key)
    /\ mu = "free"
    /\ mu' = "client"
    /\ call' = [op |-> op, key |-> key, value |-> Zero]
    /\ LET found == Lookup(Storage, key)
       IN  /\ frame' = [NoFrame EXCEPT !.exists = found.exists,
                                       !.Value = found.Value,
                                       !.promised = IF key \in DOMAIN expect
                                                    THEN expect[key].Value ELSE Zero]
           /\ pc' = IF found.exists THEN "bump" ELSE "return"
    /\ ScenCall(op, key)
    /\ SweepOverlapped
    /\ UNCHANGED <<Config, Storage, clock, gran, keys, lst, tkr, crashed, expect, client2, touched>>

Has == \E key \in keys : Read("Has", key)

Get == \E key \in keys : Read("Get", key)

\* storageItem.bumpDeleteAt(cache.Config.TTL)
Bump ==
    /\ ~crashed
    /\ pc = "bump"
    /\ Storage' = bumpDeleteAt(Storage, call.key, clock, Config.TTL)
    /\ frame' = [frame EXCEPT !.now = clock]
    /\ pc' = "return"
    /\ ExpectTouch(call.key, frame.Value, clock)
    /\ ScenTouch(call.key, frame.Value, clock)
    /\ TouchHit(call.key)
    /\ UNCHANGED <<Config, mu, clock, gran, keys, call, sw, lst, tkr, crashed, client2>>

\* mutant of Set: the room for the new entry counted before the test, the
\* eviction one entry early
SetEvictsEarly ==
    \E key \in keys, value \in Vals :
        /\ ~crashed
        /\ pc = "idle"
        /\ lst.pc = "off"
        /\ ScenAllows("Set", key)
        /\ mu = "free"
        /\ mu' = "client"
        /\ call' = [op |-> "Set", key |-> key, value |-> value]
        /\ frame' = NoFrame
        /\ pc' = IF Cardinality(DOMAIN Storage) + 1 >= Config.ItemLimit THEN "evict" ELSE "insert"
        /\ ScenCall("Set", key)
        /\ SweepOverlapped
        /\ UNCHANGED <<Config, Storage, clock, gran, keys, lst, tkr, crashed, expect, client2, touched>>

\* mutant of Set: an ItemLimit of 0 read as "no limit", the eviction skipped
SetZeroIsUnlimited ==
    \E key \in keys, value \in Vals :
        /\ ~crashed
        /\ pc = "idle"
        /\ lst.pc = "off"
        /\ ScenAllows("Set", key)
        /\ mu = "free"
        /\ mu' = "client"
        /\ call' = [op |-> "Set", key |-> key, value |-> value]
        /\ frame' = NoFrame
        /\ pc' = IF Config.ItemLimit > 0 /\ Cardinality(DOMAIN Storage) >= Config.ItemLimit
                 THEN "evict" ELSE "insert"
        /\ ScenCall("Set", key)
        /\ SweepOverlapped
        /\ UNCHANGED <<Config, Storage, clock, gran, keys, lst, tkr, crashed, expect, client2, touched>>

\* the client enters Set: mu.Lock(), then
\* if int64(len(cache.Storage.SafeMap)) >= cache.Config.ItemLimit
Set ==
    \E key \in keys, value \in Vals :
        /\ ~crashed
        /\ pc = "idle"
        /\ lst.pc = "off"
        /\ ScenAllows("Set", key)
        /\ mu = "free"
        /\ mu' = "client"
        /\ call' = [op |-> "Set", key |-> key, value |-> value]
        /\ frame' = NoFrame
        /\ pc' = IF Cardinality(DOMAIN Storage) >= Config.ItemLimit THEN "evict" ELSE "insert"
        /\ ScenCall("Set", key)
        /\ SweepOverlapped
        /\ UNCHANGED <<Config, Storage, clock, gran, keys, lst, tkr, crashed, expect, client2, touched>>

\* cache.removeOldestKey()
SetEvict ==
    /\ ~crashed
    /\ pc = "evict"
    /\ \E order \in Orders(Storage) : Storage' = removeOldestKey(Storage, order)
    /\ pc' = "insert"
    /\ ExpectEvict(DOMAIN Storage \ DOMAIN Storage')
    /\ TouchForget(DOMAIN Storage \ DOMAIN Storage')
    /\ UNCHANGED <<Config, mu, clock, gran, keys, call, frame, sw, lst, tkr, crashed, scen, client2>>

\* cache.Storage.SafeMap[key] = &StorageItem{Value: value, DeleteAt: time.Now().Add(TTL ms)}
SetInsert ==
    /\ ~crashed
    /\ pc = "insert"
    /\ Storage' = Put(Storage, call.key, StorageItem(call.value, Deadline(clock, Config.TTL)))
    /\ frame' = [frame EXCEPT !.exists = TRUE, !.Value = call.value, !.now = clock]
    /\ pc' = "return"
    /\ ExpectTouch(call.key, call.value, clock)
    /\ ScenTouch(call.key, call.value, clock)
    /\ TouchSet(call.key, call.value)
    /\ UNCHANGED <<Config, mu, clock, gran, keys, call, sw, lst, tkr, crashed, client2>>

\* mutant of Return: no deferred Unlock, and the early return of a miss
\* leaves without unlocking
ReturnMissKeepsLock ==
    /\ ~crashed
    /\ pc = "return"
    /\ mu = "client"
    /\ mu' = IF call.op \in {"Has", "Get"} /\ ~frame.exists THEN mu ELSE "free"
    /\ pc' = "idle"
    /\ call' = NoCall
    /\ frame' = NoFrame
    /\ ScenReturn
    /\ UNCHANGED <<Config, Storage, clock, gran, keys, sw, lst, tkr, crashed, expect, client2, touched>>

\* the deferred mu.Unlock() and the return
Return ==
    /\ ~crashed
    /\ pc = "return"
    /\ mu = "client"
    /\ mu' = "free"
    /\ pc' = "idle"
    /\ call' = NoCall
    /\ frame' = NoFrame
    /\ ScenReturn
    /\ UNCHANGED <<Config, Storage, clock, gran, keys, sw, lst, tkr, crashed, expect, client2, touched>>

\* A client is in the body of Has, Get or Set (it holds mu); the sweeper is
\* in its scan-and-delete pass.
BodyPcs == {"bump", "evict", "insert", "return"}
InBody == pc \in BodyPcs \/ client2.pc \in BodyPcs
InSweep == sw.pc \in {"scan", "delete"}

\* the owner of the cache drops its reference to it: no call is made any more.
\* Nothing in the code reacts to this (there is no Close, no stop channel, no
\* context): the sweeper goroutine keeps its own reference and goes on.
Discard ==
    /\ ~crashed
    /\ pc = "idle"
    /\ lst.pc = "off"
    /\ pc' = "gone"
    /\ UNCHANGED <<Config, Storage, mu, clock, gran, keys, call, frame, sw, lst, tkr, crashed, expect, scen, client2, touched>>

\* sweepKeys: now := time.Now(), the range loop starts
SweepStart ==
    /\ ~crashed
    /\ sw.pc = "sleep"
    /\ sw' = [pc |-> "scan", now |-> clock, seen |-> {}, key |-> "", quiet |-> ~InBody]
    /\ UNCHANGED <<Config, Storage, mu, clock, gran, keys, pc, call, frame, lst, tkr, crashed, expect, scen, client2, touched>>

\* one iteration of the range loop: the entry of `key` is produced and tested.
\* (An entry created during the pass may be produced or skipped; its deadline
\* lies beyond sw.now, so producing it changes nothing.)
SweepVisit ==
    \E key \in DOMAIN Storage \ sw.seen :
        /\ ~crashed
        /\ sw.pc = "scan"
        /\ sw' = IF SweepExpired(sw.now, Storage[key])
                 THEN [sw EXCEPT !.pc = "delete", !.key = key, !.seen = @ \cup {key}]
                 ELSE [sw EXCEPT !.seen = @ \cup {key}]
        /\ ScenExpired(SweepExpired(sw.now, Storage[key]))
        /\ UNCHANGED <<Config, Storage, mu, clock, gran, keys, pc, call, frame, lst, tkr, crashed, expect, client2, touched>>

\* mutant of SweepDelete: the sweeper also makes room, removing the oldest
\* entry when what is left still fills the store
SweepDeleteEvict ==
    /\ ~crashed
    /\ sw.pc = "delete"
    /\ LET left == Delete(Storage, sw.key)
       IN  IF Cardinality(DOMAIN left) >= Config.ItemLimit
           THEN \E order \in Orders(left) : Storage' = removeOldestKey(left, order)
           ELSE Storage' = left
    /\ sw' = [sw EXCEPT !.pc = "scan", !.key = ""]
    /\ UNCHANGED <<Config, mu, clock, gran, keys, pc, call, frame, lst, tkr, crashed, expect, scen, client2, touched>>

\* delete(cache.Storage.SafeMap, key)
SweepDelete ==
    /\ ~crashed
    /\ sw.pc = "delete"
    /\ Storage' = Delete(Storage, sw.key)
    /\ sw' = [sw EXCEPT !.pc = "scan", !.key = ""]
    /\ TouchForget({sw.key})
    /\ UNCHANGED <<Config, mu, clock, gran, keys, pc, call, frame, lst, tkr, crashed, expect, scen, client2>>

\* the range loop is over; back to time.Sleep(interval)
SweepEnd ==
    /\ ~crashed
    /\ sw.pc = "scan"
    /\ DOMAIN Storage \subseteq sw.seen
    /\ sw' = SwIdle
    /\ UNCHANGED <<Config, Storage, mu, clock, gran, keys, pc, call, frame, lst, tkr, crashed, expect, scen, client2, touched>>

\* mutant of startMessageListener: the enclosing `for` left out, the goroutine
\* ends after its first pass
startMessageListenerOnce ==
    \/ SweepStart
    \/ SweepVisit
    \/ SweepDelete
    \/ /\ ~crashed
       /\ sw.pc = "scan"
       /\ DOMAIN Storage \subseteq sw.seen
       /\ sw' = [SwIdle EXCEPT !.pc = "off"]
       /\ UNCHANGED <<Config, Storage, mu, clock, gran, keys, pc, call, frame, lst, tkr, crashed, expect, scen, client2, touched>>

\* startMessageListener: for { time.Sleep(interval); cache.sweepKeys() }
startMessageListener ==
    \/ SweepStart
    \/ SweepVisit
    \/ SweepDelete
    \/ SweepEnd

\* sweepKeys uses the map without the lock.  When its pass overlaps the body of
\* Has, Get or Set, the Go runtime may detect the concurrent map access and
\* stop the process (fatal error: concurrent map iteration and map write).
RaceFatal ==
    /\ ~crashed
    /\ InBody
    /\ InSweep
    /\ crashed' = TRUE
    /\ Storage' = << >>
    /\ mu' = "free"
    /\ pc' = "dead"
    /\ call' = NoCall
    /\ frame' = NoFrame
    /\ sw' = [SwIdle EXCEPT !.pc = "dead"]
    /\ expect' = << >>
    /\ scen' = ScenOff
    /\ client2' = IF client2.pc = "off" THEN client2 ELSE [NoClient EXCEPT !.pc = "dead"]
    /\ touched' = TouchedOff
    /\ UNCHANGED <<Config, clock, gran, keys, lst, tkr>>

Next ==
    \/ Tick
    \/ Has
    \/ Get
    \/ Set
    \/ Bump
    \/ SetEvict
    \/ SetInsert
    \/ Return
    \/ Discard
    \/ startMessageListener
    \/ RaceFatal

Spec == Init /\ [][Next]_vars

SpecMs == InitMs /\ [][Next]_vars

SpecEvict == InitEvict /\ [][Next]_vars

\* the mutex-based cache with the touch history kept, non-empty keys
InitTouch ==
    /\ \E limit \in 0..MaxItemLimit, ttl \in 1..MaxTTL : NewLRUCache(limit, ttl)
    /\ keys \in {K \in KeySets : "" \notin K}
    /\ gran = 1
    /\ scen = ScenOff
    /\ client2 = NoClient
    /\ touched = [TouchedOff EXCEPT !.on = TRUE]

SpecTouch == InitTouch /\ [][Next]_vars

\* Fair scheduling (clock in whole milliseconds): the Go scheduler runs every
\* runnable goroutine, so the sweeper goroutine, whose time.Sleep always ends,
\* keeps taking steps, and a client inside Has, Get or Set (it holds mu and
\* waits for nothing) takes its next step.  A client is not obliged to call.
Fairness ==
    /\ WF_vars(startMessageListener)
    /\ WF_vars(Bump \/ SetEvict \/ SetInsert \/ Return)

SpecLive == InitMs /\ [][Next]_vars /\ Fairness

\* --------------------------------- a second client, mutex-based cache
\* The second client runs the same Has, Get and Set.  Its call and its wait
\* in mu.Lock() are separate steps, so that a call blocked on the lock shows.
InitTwo ==
    /\ \E limit \in 0..MaxItemLimit, ttl \in 1..MaxTTL : NewLRUCache(limit, ttl)
    /\ keys \in {K \in KeySets : Cardinality(K) = 2}
    /\ gran = TicksPerMs
    /\ scen = ScenOff
    /\ client2 = [NoClient EXCEPT !.pc = "idle"]
    /\ touched = TouchedOff

\* the second client calls Has(key), Get(key) or Set(key, value) and reaches
\* cache.Storage.mu.Lock()
Call2 ==
    \E op \in {"Has", "Get", "Set"}, key \in keys, value \in Vals :
        /\ ~crashed
        /\ client2.pc = "idle"
        /\ client2' = [client2 EXCEPT !.pc = "lock",
                                      !.call = [op |-> op, key |-> key,
                                                value |-> IF op = "Set" THEN value ELSE Zero]]
        /\ UNCHANGED <<Config, Storage, mu, clock, gran, keys, pc, call, frame, sw, lst, tkr, crashed, expect, scen, touched>>

\* mu.Lock() returns; then the lookup of Has / Get, or the test of Set
Lock2 ==
    /\ ~crashed
    /\ client2.pc = "lock"
    /\ mu = "free"
    /\ mu' = "client2"
    /\ LET found == Lookup(Storage, client2.call.key)
       IN  client2' =
               IF client2.call.op = "Set"
               THEN [client2 EXCEPT !.pc = IF Cardinality(DOMAIN Storage) >= Config.ItemLimit
                                           THEN "evict" ELSE "insert"]
               ELSE [client2 EXCEPT !.pc = IF found.exists THEN "bump" ELSE "return",
                                    !.frame = [NoFrame EXCEPT !.exists = found.exists,
                                                              !.Value = found.Value]]
    /\ SweepOverlapped
    /\ UNCHANGED <<Config, Storage, clock, gran, keys, pc, call, frame, lst, tkr, crashed, expect, scen, touched>>

\* storageItem.bumpDeleteAt(cache.Config.TTL)
Bump2 ==
    /\ ~crashed
    /\ client2.pc = "bump"
    /\ Storage' = bumpDeleteAt(Storage, client2.call.key, clock, Config.TTL)
    /\ client2' = [client2 EXCEPT !.pc = "return", !.frame.now = clock]
    /\ ExpectTouch(client2.call.key, client2.frame.Value, clock)
    /\ TouchHit(client2.call.key)
    /\ UNCHANGED <<Config, mu, clock, gran, keys, pc, call, frame, sw, lst, tkr, crashed, scen>>

\* cache.removeOldestKey()
SetEvict2 ==
    /\ ~crashed
    /\ client2.pc = "evict"
    /\ \E order \in Orders(Storage) : Storage' = removeOldestKey(Storage, order)
    /\ client2' = [client2 EXCEPT !.pc = "insert"]
    /\ ExpectEvict(DOMAIN Storage \ DOMAIN Storage')
    /\ TouchForget(DOMAIN Storage \ DOMAIN Storage')
    /\ UNCHANGED <<Config, mu, clock, gran, keys, pc, call, frame, sw, lst, tkr, crashed, scen>>

\* cache.Storage.SafeMap[key] = &StorageItem{...}
SetInsert2 ==
    /\ ~crashed
    /\ client2.pc = "insert"
    /\ Storage' = Put(Storage, client2.call.key,
                      StorageItem(client2.call.value, Deadline(clock, Config.TTL)))
    /\ client2' = [client2 EXCEPT !.pc = "return",
                                  !.frame = [NoFrame EXCEPT !.exists = TRUE,
                                                            !.Value = client2.call.value,
                                                            !.now = clock]]
    /\ ExpectTouch(client2.call.key, client2.call.value, clock)
    /\ TouchSet(client2.call.key, client2.call.value)
    /\ UNCHANGED <<Config, mu, clock, gran, keys, pc, call, frame, sw, lst, tkr, crashed, scen>>

\* the deferred mu.Unlock() and the return
Return2 ==
    /\ ~crashed
    /\ client2.pc = "return"
    /\ mu = "client2"
    /\ mu' = "free"
    /\ client2' = [NoClient EXCEPT !.pc = "idle"]
    /\ UNCHANGED <<Config, Storage, clock, gran, keys, pc, call, frame, sw, lst, tkr, crashed, expect, scen, touched>>

NextTwo ==
    \/ Next
    \/ Call2
    \/ Lock2
    \/ Bump2
    \/ SetEvict2
    \/ SetInsert2
    \/ Return2

\* Fair scheduling with two clients: as Fairness, and a client blocked in
\* mu.Lock() gets the lock when it is released again and again (sync.RWMutex
\* hands the lock to a starving waiter: the starvation mode of sync.Mutex).
FairnessTwo ==
    /\ Fairness
    /\ WF_vars(Bump2 \/ SetEvict2 \/ SetInsert2 \/ Return2)
    /\ SF_vars(Lock2)

SpecTwo == InitTwo /\ [][NextTwo]_vars /\ FairnessTwo

\* ----------------------------------------- actions, channel-based cache
\* NewLRUCache (channel-based): startMessageListener makes the unbuffered
\* channel and starts the ticker and the listener goroutines
NewLRUCacheChan(limit, ttl) ==
    /\ NewCache(limit, ttl)
    /\ sw = [SwIdle EXCEPT !.pc = "off"]
    /\ lst = [pc |-> "recv", msg |-> NoMsg]
    /\ tkr = "sleep"

InitChan ==
    /\ \E limit \in 0..MaxItemLimit, ttl \in 1..MaxTTL : NewLRUCacheChan(limit, ttl)
    /\ keys \in KeySets
    /\ gran = 1
    /\ scen = ScenOff
    /\ client2 = NoClient
    /\ touched = TouchedOff

\* setFromChannel(key, value), run by the listener goroutine
setFromChannel(m, order, key, value, now) ==
    LET kept == IF Cardinality(DOMAIN m) >= Config.ItemLimit
                THEN removeOldestKey(m, order)
                ELSE m
    IN  Put(kept, key, StorageItem(value, Deadline(now, Config.TTL)))

\* the client calls Set(key, value) and reaches
\* cache.messageChannel <- message{key, value, action: "add"}
ChanSet ==
    \E key \in keys, value \in Vals :
        /\ pc = "idle"
        /\ lst.pc # "off"
        /\ pc' = "send"
        /\ call' = [op |-> "Set", key |-> key, value |-> value]
        /\ UNCHANGED <<Config, Storage, mu, clock, gran, keys, frame, sw, lst, tkr, crashed, expect, scen, client2, touched>>

\* the listener's `range cache.messageChannel` receives the client's add;
\* the client goes on to <-cache.messageChannel
SendAdd ==
    /\ pc = "send"
    /\ lst.pc = "recv"
    /\ lst' = [pc |-> "add", msg |-> [action |-> "add", key |-> call.key, value |-> call.value]]
    /\ pc' = "recv"
    /\ UNCHANGED <<Config, Storage, mu, clock, gran, keys, call, frame, sw, tkr, crashed, expect, scen, client2, touched>>

\* the listener: cache.setFromChannel(msg.key, msg.value), then it reaches
\* cache.messageChannel <- message{action: "done"}
ListenerAdd ==
    /\ lst.pc = "add"
    /\ \E order \in Orders(Storage) :
           Storage' = setFromChannel(Storage, order, lst.msg.key, lst.msg.value, clock)
    /\ lst' = [pc |-> "done", msg |-> NoMsg]
    /\ UNCHANGED <<Config, mu, clock, gran, keys, pc, call, frame, sw, tkr, crashed, expect, scen, client2, touched>>

\* the client's <-cache.messageChannel receives the listener's done; Set returns
RecvDone ==
    /\ lst.pc = "done"
    /\ pc = "recv"
    /\ lst' = [pc |-> "recv", msg |-> NoMsg]
    /\ pc' = "idle"
    /\ call' = NoCall
    /\ UNCHANGED <<Config, Storage, mu, clock, gran, keys, frame, sw, tkr, crashed, expect, scen, client2, touched>>

\* the ticker: time.Sleep(interval) is over, it reaches
\* cache.messageChannel <- message{action: "sweep"}
TickerWake ==
    /\ tkr = "sleep"
    /\ tkr' = "send"
    /\ UNCHANGED <<Config, Storage, mu, clock, gran, keys, pc, call, frame, sw, lst, crashed, expect, scen, client2, touched>>

\* the listener receives the ticker's sweep
SweepToListener ==
    /\ tkr = "send"
    /\ lst.pc = "recv"
    /\ tkr' = "sleep"
    /\ lst' = [pc |-> "sweep", msg |-> [NoMsg EXCEPT !.action = "sweep"]]
    /\ UNCHANGED <<Config, Storage, mu, clock, gran, keys, pc, call, frame, sw, crashed, expect, scen, client2, touched>>

\* the client's <-cache.messageChannel receives the ticker's sweep: the
\* message is dropped and Set returns
SweepToClient ==
    /\ tkr = "send"
    /\ pc = "recv"
    /\ tkr' = "sleep"
    /\ pc' = "idle"
    /\ call' = NoCall
    /\ UNCHANGED <<Config, Storage, mu, clock, gran, keys, frame, sw, lst, crashed, expect, scen, client2, touched>>

\* the listener: cache.sweepKeys()
ListenerSweep ==
    /\ lst.pc = "sweep"
    /\ Storage' = sweepKeys(Storage, clock)
    /\ lst' = [pc |-> "recv", msg |-> NoMsg]
    /\ UNCHANGED <<Config, mu, clock, gran, keys, pc, call, frame, sw, tkr, crashed, expect, scen, client2, touched>>

\* Has(key) / Get(key), channel-based: the caller's own goroutine indexes the
\* map, storageItem, exists := cache.Storage[key]; a miss returns at once
ChanRead(op, key) ==
    /\ pc = "idle"
    /\ lst.pc \notin {"off", "dead"}
    /\ LET found == Lookup(Storage, key)
       IN  IF found.exists
           THEN /\ pc' = "chanbump"
                /\ call' = [op |-> op, key |-> key, value |-> Zero]
                /\ frame' = [NoFrame EXCEPT !.exists = TRUE, !.Value = found.Value]
           ELSE UNCHANGED <<pc, call, frame, touched>>
    /\ UNCHANGED <<Config, Storage, mu, clock, gran, keys, sw, lst, tkr, crashed, expect, scen, client2, touched>>

ChanHas == \E key \in keys : ChanRead("Has", key)

ChanGet == \E key \in keys : ChanRead("Get", key)

\* storageItem.bumpDeleteAt(cache.Config.TTL), by the caller's goroutine, and
\* the return of Has / Get
ChanBump ==
    /\ pc = "chanbump"
    /\ Storage' = bumpDeleteAt(Storage, call.key, clock, Config.TTL)
    /\ pc' = "idle"
    /\ call' = NoCall
    /\ frame' = NoFrame
    /\ UNCHANGED <<Config, mu, clock, gran, keys, sw, lst, tkr, crashed, expect, scen, client2, touched>>

\* The caller's goroutine is inside Has or Get while the listener goroutine is
\* inside setFromChannel or sweepKeys.
InChanBody == pc = "chanbump"
InListenerBody == lst.pc \in {"add", "sweep"}

\* Has and Get use the map with no synchronisation at all: when they overlap
\* the listener's writes the Go runtime may stop the process (fatal error:
\* concurrent map read and map write).
ChanRaceFatal ==
    /\ ~crashed
    /\ InChanBody
    /\ InListenerBody
    /\ crashed' = TRUE
    /\ Storage' = << >>
    /\ pc' = "dead"
    /\ call' = NoCall
    /\ frame' = NoFrame
    /\ lst' = [pc |-> "dead", msg |-> NoMsg]
    /\ tkr' = "dead"
    /\ client2' = IF client2.pc = "off" THEN client2 ELSE [NoClient EXCEPT !.pc = "dead"]
    /\ UNCHANGED <<Config, mu, clock, gran, keys, sw, expect, scen, touched>>

NextChan ==
    \/ Tick
    \/ ChanSet
    \/ SendAdd
    \/ ListenerAdd
    \/ RecvDone
    \/ TickerWake
    \/ SweepToListener
    \/ SweepToClient
    \/ ListenerSweep
    \/ ChanHas
    \/ ChanGet
    \/ ChanBump
    \/ ChanRaceFatal

SpecChan == InitChan /\ [][NextChan]_vars

\* ------------------------------- a second client, channel-based cache
\* The second client calls Set concurrently with the first.  Every goroutine
\* that is at a receive on messageChannel can complete any goroutine's send.
InitChanTwo ==
    /\ \E limit \in 0..MaxItemLimit, ttl \in 1..MaxTTL : NewLRUCacheChan(limit, ttl)
    /\ keys \in {K \in KeySets : Cardinality(K) = 2}
    /\ gran = TicksPerMs
    /\ scen = ScenOff
    /\ client2 = [NoClient EXCEPT !.pc = "idle"]
    /\ touched = TouchedOff

\* the second client calls Set(key, value) and reaches its send of the add
ChanSet2 ==
    \E key \in keys, value \in Vals :
        /\ client2.pc = "idle"
        /\ lst.pc \notin {"off", "dead"}
        /\ client2' = [client2 EXCEPT !.pc = "send",
                                      !.call = [op |-> "Set", key |-> key, value |-> value]]
        /\ UNCHANGED <<Config, Storage, mu, clock, gran, keys, pc, call, frame, sw, lst, tkr, crashed, expect, scen, touched>>

\* the listener receives the second client's add
SendAdd2 ==
    /\ client2.pc = "send"
    /\ lst.pc = "recv"
    /\ lst' = [pc |-> "add", msg |-> [action |-> "add", key |-> client2.call.key,
                                      value |-> client2.call.value]]
    /\ client2' = [client2 EXCEPT !.pc = "recv"]
    /\ UNCHANGED <<Config, Storage, mu, clock, gran, keys, pc, call, frame, sw, tkr, crashed, expect, scen, touched>>

\* the second client's <-cache.messageChannel receives the listener's done
RecvDone2 ==
    /\ lst.pc = "done"
    /\ client2.pc = "recv"
    /\ lst' = [pc |-> "recv", msg |-> NoMsg]
    /\ client2' = [NoClient EXCEPT !.pc = "idle"]
    /\ UNCHANGED <<Config, Storage, mu, clock, gran, keys, pc, call, frame, sw, tkr, crashed, expect, scen, touched>>

\* the second client's <-cache.messageChannel receives the ticker's sweep
SweepToClient2 ==
    /\ tkr = "send"
    /\ client2.pc = "recv"
    /\ tkr' = "sleep"
    /\ client2' = [NoClient EXCEPT !.pc = "idle"]
    /\ UNCHANGED <<Config, Storage, mu, clock, gran, keys, pc, call, frame, sw, lst, crashed, expect, scen, touched>>

\* the first client's send of its add is completed by the receive of the
\* second client, which is waiting in Set for a done: that Set returns, the
\* add is dropped
AddToClient2 ==
    /\ pc = "send"
    /\ client2.pc = "recv"
    /\ pc' = "recv"
    /\ client2' = [NoClient EXCEPT !.pc = "idle"]
    /\ UNCHANGED <<Config, Storage, mu, clock, gran, keys, call, frame, sw, lst, tkr, crashed, expect, scen, touched>>

\* the same, the second client's add received by the first client
Add2ToClient ==
    /\ client2.pc = "send"
    /\ pc = "recv"
    /\ client2' = [client2 EXCEPT !.pc = "recv"]
    /\ pc' = "idle"
    /\ call' = NoCall
    /\ UNCHANGED <<Config, Storage, mu, clock, gran, keys, frame, sw, lst, tkr, crashed, expect, scen, touched>>

NextChanTwo ==
    \/ NextChan
    \/ ChanSet2
    \/ SendAdd2
    \/ RecvDone2
    \/ SweepToClient2
    \/ AddToClient2
    \/ Add2ToClient

SpecChanTwo == InitChanTwo /\ [][NextChanTwo]_vars

\* every goroutine of the channel-based cache is at a channel operation that
\* no other goroutine can complete
ChanAllBlocked ==
    /\ pc = "send"
    /\ lst.pc = "done"
    /\ tkr = "send"

TypeOK ==
    /\ Config.ItemLimit \in 0..MaxItemLimit
    /\ DOMAIN Storage \subseteq Keys
    /\ mu \in {"free", "client", "client2"}
    /\ clock \in 0..MaxClock

\* ================================================================ claims

\* C1 -- Capacity invariant (mutex-based cache, ItemLimit >= 1, non-empty
\* keys): whenever no Set is in progress, whatever Has, Get, Set and sweeper
\* steps came before, the store holds at most ItemLimit entries.
C1_CapacityInvariant ==
    (Config.ItemLimit >= 1 /\ "" \notin keys /\ call.op # "Set")
        => Cardinality(DOMAIN Storage) <= Config.ItemLimit

\* C1 witness: no Set is in progress, the store is at capacity (ItemLimit = 2,
\* non-empty keys) after Sets at different times, and the sweeper is in the
\* middle of a pass, about to delete an entry.
C1_Witness ==
    /\ Config.ItemLimit = 2
    /\ "" \notin keys
    /\ pc = "idle"
    /\ Cardinality(DOMAIN Storage) = Config.ItemLimit
    /\ \E j, k \in DOMAIN Storage : Storage[j].DeleteAt < Storage[k].DeleteAt
    /\ sw.pc = "delete"

\* C2 -- Overwrite semantics: a Set(k, v2) on a key that is in the store
\* removes no other key (its eviction step) and stores v2 under k without
\* changing the set of keys (its insertion step).  Stated for non-empty keys,
\* so that the empty key of C4 plays no part in a violation.
C2_Overwrite ==
    [][/\ (pc = "evict" /\ pc' = "insert" /\ "" \notin keys /\ call.key \in DOMAIN Storage)
            => (DOMAIN Storage \ {call.key}) \subseteq DOMAIN Storage'
       /\ (pc = "insert" /\ pc' = "return" /\ "" \notin keys /\ call.key \in DOMAIN Storage)
            => /\ DOMAIN Storage' = DOMAIN Storage
               /\ Storage'[call.key].Value = call.value]_vars

\* C3 -- Eviction order: when the Set of the new key that ends the scenario
\* returns, and no entry expired meanwhile, the only key of the first
\* ItemLimit ones that is absent is the one whose latest touch is the
\* earliest; the others hold their latest values and the new key its value.
EvictionOrderHolds ==
    LET first == DOMAIN scen.touched
        oldest == CHOOSE k \in first : \A j \in first : scen.touched[k].at <= scen.touched[j].at
    IN  /\ first \ DOMAIN Storage = {oldest}
        /\ \A k \in first \ {oldest} : Storage[k].Value = scen.touched[k].Value
        /\ call.key \in DOMAIN Storage
        /\ Storage[call.key].Value = call.value

C4_ExactlyOneEviction ==
    [][(/\ pc = "evict" /\ pc' = "insert"
        /\ Config.ItemLimit >= 1
        /\ call.key \notin DOMAIN Storage
        /\ Cardinality(DOMAIN Storage) = Config.ItemLimit)
           => /\ DOMAIN Storage' \subseteq DOMAIN Storage
              /\ Cardinality(DOMAIN Storage') = Config.ItemLimit - 1]_vars

\* C5 -- Logical expiry at read time: the lookup of Has(k) and Get(k) finds the
\* key if and only if k is in the store and now < deleteAt(k).
C5_LogicalExpiry ==
    [][(pc = "idle" /\ call'.op \in {"Has", "Get"})
           => (frame'.exists <=> (/\ call'.key \in DOMAIN Storage
                                  /\ clock < Storage[call'.key].DeleteAt))]_vars

\* C6 -- Sliding TTL (clock in whole milliseconds): a Has(k) or Get(k) issued
\* less than TTL after the latest touch of k, k not evicted for capacity
\* since, hits, whatever the sweeper did in between.
C6_SlidingTTL ==
    [][(pc = "idle" /\ call'.op \in {"Has", "Get"} /\ call'.key \in DOMAIN expect)
           => frame'.exists]_vars

\* C7 -- Mutual exclusion: the sweeper is never in the middle of its
\* scan-and-delete pass while Has, Get or Set is in the middle of its body.
C7_MutualExclusion == ~(InSweep /\ InBody)

\* C8 -- Atomic hit: when a Has(k) or Get(k) that hit returns, k is in the
\* store with deleteAt equal to the call's clock reading plus TTL.
C8_AtomicHit ==
    [][(pc = "return" /\ pc' = "idle" /\ call.op \in {"Has", "Get"} /\ frame.exists)
           => /\ call.key \in DOMAIN Storage
              /\ Storage[call.key].DeleteAt = Deadline(frame.now, Config.TTL)]_vars

\* C9 -- Set always returns (channel-based cache): no reachable state has the
\* client, the listener goroutine and the ticker goroutine all blocked on the
\* message channel.
C9_SetReturns == ~ChanAllBlocked

\* C10 -- Round-trip: a Get(k) issued less than TTL after the latest touch of
\* k, after a Set(k, v) and with k not evicted for capacity since, returns v
\* and a nil error.
C10_RoundTrip ==
    [][(pc = "return" /\ pc' = "idle" /\ call.op = "Get" /\ frame.promised # Zero)
           => (frame.exists /\ frame.Value = frame.promised)]_vars

\* C11 -- Miss leaves the state unchanged: the lookup of a Has(k) or Get(k) on
\* a key that is not in the store finds nothing (Has returns false, Get the
\* zero value and an error), and neither that step nor the return of the call
\* changes the store.
C11_MissUnchanged ==
    [][/\ (pc = "idle" /\ call'.op \in {"Has", "Get"} /\ call'.key \notin DOMAIN Storage)
            => (~frame'.exists /\ frame'.Value = Zero /\ pc' = "return" /\ Storage' = Storage)
       /\ (pc = "return" /\ pc' = "idle" /\ call.op \in {"Has", "Get"} /\ ~frame.exists)
            => (frame.Value = Zero /\ Storage' = Storage)]_vars

\* C11 witness: a Get has missed and is about to return, while the store
\* holds another key.
C11_Witness ==
    /\ pc = "return"
    /\ call.op = "Get"
    /\ ~frame.exists
    /\ call.key \notin DOMAIN Storage
    /\ Storage # << >>

\* C12 -- Sweep completeness: when a sweeper pass that read the clock value
\* now ends, and no Has, Get or Set body overlapped the pass, no entry with
\* deleteAt <= now is left in the store.
C12_SweepComplete ==
    [][(sw.pc = "scan" /\ sw'.pc = "sleep" /\ sw.quiet)
           => \A k \in DOMAIN Storage' : Storage'[k].DeleteAt > sw.now]_vars

\* C12 witness: a pass that no call overlapped has produced every entry and is
\* about to end; it has deleted an entry and kept another.
C12_Witness ==
    /\ sw.pc = "scan"
    /\ sw.quiet
    /\ DOMAIN Storage \subseteq sw.seen
    /\ sw.seen \ DOMAIN Storage # {}
    /\ Storage # << >>

\* C13 -- Sweeper liveness: while the process runs the sweeper loop always has
\* a next step (it has no exit), and under fair scheduling every entry whose
\* deleteAt has passed is eventually removed from the store unless it is
\* touched again, also when no Has, Get or Set is ever called again.
C13_SweeperLiveness ==
    /\ [](~crashed => ENABLED startMessageListener)
    /\ \A k \in Keys :
           (k \in DOMAIN Storage /\ Storage[k].DeleteAt <= clock)
               ~> (k \notin DOMAIN Storage \/ Storage[k].DeleteAt > clock)

\* C13 witness: the sweeper, in a pass that began after the deadline of an
\* entry that nobody touched again, is about to delete that entry; no call is
\* in progress.
C13_Witness ==
    /\ sw.pc = "delete"
    /\ pc = "idle"
    /\ sw.key \in DOMAIN Storage
    /\ Storage[sw.key].DeleteAt <= sw.now
    /\ sw.quiet

\* C14 -- Sweeper cancellation: once the owner has discarded the cache, from
\* some point on the sweeper takes no further step (no tick, no access to the
\* store).
C14_SweeperStops == <>[][pc = "gone" => sw' = sw]_vars

\* C15 -- Construction validation: a configuration with ItemLimit <= 0 or
\* TTL <= 0 is rejected by NewLRUCache: no sweeper pass ever runs for it and
\* no Has, Get or Set is ever in progress on a cache made from it.
C15_ConstructionValidation ==
    (Config.ItemLimit <= 0 \/ Config.TTL <= 0)
        => (sw.pc \notin {"scan", "delete"} /\ call.op = "none")

\* C16 -- The sweeper only deletes expired entries: a step of the sweeper
\* never adds a key and never changes the value or the deleteAt of an entry
\* that stays; the only entry it removes is the one it has just tested, and it
\* picks an entry for removal only on that entry's deleteAt and the pass's now
\* (deleteAt less than a millisecond after now), whatever the size of the
\* store and ItemLimit.
SweeperStep == ~crashed' /\ (sw'.pc # sw.pc \/ sw'.seen # sw.seen)

C16_SweeperOnlyDeletes ==
    [][SweeperStep
           => /\ DOMAIN Storage' \subseteq DOMAIN Storage
              /\ \A k \in DOMAIN Storage' : Storage'[k] = Storage[k]
              /\ (DOMAIN Storage \ DOMAIN Storage') \subseteq {sw.key}
              /\ sw'.pc = "delete" => Storage[sw'.key].DeleteAt < sw.now + TicksPerMs]_vars

\* C16 witness: in a pass that no call overlapped, the sweeper has removed an
\* entry from a store that held fewer than ItemLimit entries.
C16_Witness ==
    /\ sw.pc = "scan"
    /\ sw.quiet
    /\ DOMAIN Storage \subseteq sw.seen
    /\ sw.seen \ DOMAIN Storage # {}
    /\ Cardinality(sw.seen) < Config.ItemLimit

C18_SetCompletes ==
    [][(pc = "recv" /\ pc' = "idle")
           => /\ lst.pc = "done"
              /\ lst'.pc = "recv"
              /\ call.key \in DOMAIN Storage
              /\ Storage[call.key].Value = call.value]_vars

\* C19 -- No lost write (channel-based cache, two clients calling Set): when
\* the send of an add completes, it is the listener goroutine that has
\* received that add (and will apply it); no add is received by the other
\* client.
C19_NoLostWrite ==
    [][/\ (pc = "send" /\ pc' = "recv")
            => (lst'.pc = "add" /\ lst'.msg.key = call.key /\ lst'.msg.value = call.value)
       /\ (client2.pc = "send" /\ client2'.pc = "recv")
            => (lst'.pc = "add" /\ lst'.msg.key = client2.call.key
                               /\ lst'.msg.value = client2.call.value)]_vars

\* C20 -- Single-consumer serialization (channel-based cache): the caller's
\* goroutine is never inside the body of Has or Get, between its read of the
\* map and its write of deleteAt, while the listener goroutine is inside
\* setFromChannel or sweepKeys.
C20_SingleConsumer == ~(InChanBody /\ InListenerBody)

C22_MinimumDeadline ==
    [][(pc = "evict" /\ pc' = "insert" /\ "" \notin keys /\ Storage # << >>)
           => \E k \in DOMAIN Storage :
                  /\ DOMAIN Storage' = DOMAIN Storage \ {k}
                  /\ \A j \in DOMAIN Storage' :
                         /\ Storage'[j] = Storage[j]
                         /\ Storage[k].DeleteAt <= Storage[j].DeleteAt]_vars

\* C22 witness: a Set has reached its call of removeOldestKey on a full store
\* (ItemLimit = 2, non-empty keys) whose two entries share the smallest
\* deleteAt, at a clock reading later than their Sets.
C22_Witness ==
    /\ pc = "evict"
    /\ "" \notin keys
    /\ Config.ItemLimit = 2
    /\ clock > 0
    /\ Cardinality(DOMAIN Storage) = 2
    /\ \A j, k \in DOMAIN Storage : Storage[j].DeleteAt = Storage[k].DeleteAt

\* C23 -- Deadline order is touch order: in every reachable state the touch
\* history lists exactly the keys of the store, and for any two entries a and
\* b, deleteAt(a) < deleteAt(b) implies that a's latest touch (by a Has or Get
\* that hit, or a Set) came before b's latest touch; hence the least recently
\* touched entry has a smallest deleteAt.
C23_DeadlineOrder ==
    touched.on =>
        /\ TouchedKeys = DOMAIN Storage
        /\ \A a, b \in DOMAIN Storage :
               Storage[a].DeleteAt < Storage[b].DeleteAt => TouchPos(a) < TouchPos(b)
        /\ Storage # << >>
               => \A b \in DOMAIN Storage :
                      Storage[touched.order[1].key].DeleteAt <= Storage[b].DeleteAt

\* C23 witness: two entries with different deadlines; the later deadline
\* belongs to the key of a Get that has just hit, and the other entry stands
\* first in the touch history.
C23_Witness ==
    /\ touched.on
    /\ pc = "return"
    /\ call.op = "Get"
    /\ frame.exists
    /\ Cardinality(DOMAIN Storage) = 2
    /\ call.key \in DOMAIN Storage
    /\ \E a \in DOMAIN Storage :
           /\ Storage[a].DeleteAt < Storage[call.key].DeleteAt
           /\ touched.order[1].key = a

\* C24 -- No early sweep at sub-millisecond resolution: sweepKeys picks an
\* entry for removal only when its deleteAt is at or before the pass's now; an
\* entry whose deleteAt lies after now, by less than a millisecond too, is
\* kept.
C24_NoEarlySweep ==
    [][(sw.pc = "scan" /\ sw'.pc = "delete")
           => Storage[sw'.key].DeleteAt <= sw.now]_vars

C26_InsertBelowLimit ==
    [][ /\ ( /\ pc = "idle" /\ pc' # "idle" /\ call'.op = "Set"
             /\ call'.key \notin DOMAIN Storage
             /\ Cardinality(DOMAIN Storage) < Config.ItemLimit )
              => (pc' = "insert" /\ Storage' = Storage)
        /\ (pc = "insert" /\ pc' = "return" /\ call.key \notin DOMAIN Storage)
              => /\ DOMAIN Storage' = DOMAIN Storage \cup {call.key}
                 /\ Storage'[call.key].Value = call.value
                 /\ \A j \in DOMAIN Storage : Storage'[j] = Storage[j]
                 /\ Cardinality(DOMAIN Storage') = Cardinality(DOMAIN Storage) + 1 ]_vars

\* C26 witness: ItemLimit = 2 and two Sets only have been made, of two keys,
\* at the clock readings 0 and 1; the second is about to return, the store
\* holds both entries, and the first still has the value and the deleteAt
\* of its Set.
C26_Witness ==
    /\ Config.ItemLimit = 2
    /\ pc = "return"
    /\ call.op = "Set"
    /\ scen.phase = "touch"
    /\ scen.last = 1
    /\ clock = 1
    /\ call.key # scen.first
    /\ DOMAIN Storage = {scen.first, call.key}
    /\ Storage[call.key].Value = call.value
    /\ Storage[scen.first] = StorageItem(scen.touched[scen.first].Value,
                                         Deadline(scen.touched[scen.first].at, Config.TTL))

\* C27 -- Expired entries are evicted first: with non-empty keys, when the
\* eviction inside Set runs while the store holds an entry whose deleteAt is
\* at or before now (the sweeper has not removed it yet), the entry it removes
\* is one whose deleteAt is at or before now, never one that is still live.
C27_ExpiredFirst ==
    [][ ( /\ pc = "evict" /\ pc' = "insert"
          /\ "" \notin keys
          /\ \E e \in DOMAIN Storage : Storage[e].DeleteAt <= clock )
            => /\ DOMAIN Storage' # DOMAIN Storage
               /\ \A r \in DOMAIN Storage \ DOMAIN Storage' : Storage[r].DeleteAt <= clock ]_vars

\* C27 witness: a Set is at its eviction with ItemLimit = 2 on a store of one
\* entry past its deleteAt and one that is still live.
C27_Witness ==
    /\ pc = "evict"
    /\ "" \notin keys
    /\ Config.ItemLimit = 2
    /\ Cardinality(DOMAIN Storage) = 2
    /\ \E e, l \in DOMAIN Storage :
           /\ Storage[e].DeleteAt <= clock
           /\ Storage[l].DeleteAt > clock

\* C28 -- A hit changes only one deadline: the lookup of a Has(k) or Get(k)
\* that hits leaves the store as it is, and Get takes the value stored by the
\* latest Set(k, .); the bump that follows keeps the set of keys, every
\* stored value and the deleteAt of every key other than k; the return
\* leaves the store as it is and Get returns that value.
C28_HitFrame ==
    [][ /\ (pc = "idle" /\ pc' = "bump")
              => /\ Storage' = Storage
                 /\ call'.op = "Get" => frame'.Value = LastSet(call'.key)
        /\ (pc = "bump" /\ pc' = "return")
              => /\ DOMAIN Storage' = DOMAIN Storage
                 /\ \A j \in DOMAIN Storage :
                        /\ Storage'[j].Value = Storage[j].Value
                        /\ j # call.key => Storage'[j].DeleteAt = Storage[j].DeleteAt
        /\ (pc = "return" /\ pc' = "idle" /\ call.op \in {"Has", "Get"} /\ frame.exists)
              => /\ Storage' = Storage
                 /\ (call.op = "Get" /\ call.key \in DOMAIN Storage)
                        => (frame.Value = LastSet(call.key) /\ Storage[call.key].Value = frame.Value)
      ]_vars

\* C28 witness: a Get that hit is about to return the value of the latest
\* Set of its key, its entry carries the new deadline, and the store holds a
\* second entry with another value and an earlier deadline.
C28_Witness ==
    /\ touched.on
    /\ pc = "return"
    /\ call.op = "Get"
    /\ frame.exists
    /\ call.key \in DOMAIN Storage
    /\ frame.Value = MaxVal
    /\ LastSet(call.key) = MaxVal
    /\ Storage[call.key].DeleteAt = Deadline(frame.now, Config.TTL)
    /\ frame.now > 0
    /\ \E o \in DOMAIN Storage \ {call.key} :
           /\ Storage[o].Value = 1
           /\ Storage[o].DeleteAt < Storage[call.key].DeleteAt

====
